---- MODULE Spec2Model ----
(***************************************************************************)
(* Attendance sheets (nlitenmusic/make_attendance).                        *)
(*                                                                         *)
(* A sign-up table is expanded into attendance rows (attendance_logic.py), *)
(* the rows are grouped by (Day, Clinic) and stored as "sheet" documents   *)
(* in one MongoDB collection, and the Flask handlers of app.py edit those  *)
(* documents.  The collection is modelled as the sequence of its           *)
(* documents in natural (insertion) order; a handler is one atomic action. *)
(*                                                                         *)
(* Text.  A Python string is modelled as a sequence of symbols, each       *)
(* symbol a word of Alphabet.  No word of Alphabet is a prefix of another  *)
(* and Alphabet lists its words in code-point order, so comparing two      *)
(* texts symbol by symbol gives the order Python/pandas give the strings.  *)
(* Str renders a text as the TLA+ string that is stored.                   *)
(***************************************************************************)
EXTENDS Integers, Sequences, FiniteSets, TLC

\* ------------------------------------------------------------------------
\* attendance_logic.py: configuration
\* ------------------------------------------------------------------------

CLINIC_COLUMNS ==
    << [clinic |-> "Red Ball Clinic",         column |-> "Red Ball Clinic - Day & Time"],
       [clinic |-> "Orange Ball Clinic",      column |-> "Orange Ball Clinic - Day & Time"],
       [clinic |-> "Green Ball Clinic",       column |-> "Green Ball Clinic - Day & Time"],
       [clinic |-> "Yellow Ball Clinic",      column |-> "Yellow Ball Clinic - Day & Time"],
       [clinic |-> "High Performance Clinic", column |-> "High Performance Clinic - Day & Time"] >>

DAY_ORDER == <<"Monday", "Tuesday", "Wednesday", "Thursday", "Friday">>

CLINIC_ORDER ==
    <<"Red Ball Clinic", "Orange Ball Clinic", "Green Ball Clinic",
      "Yellow Ball Clinic", "High Performance Clinic">>

\* The value pandas puts where a Categorical has no such category.
NaN == "<NaN>"

Range(s) == {s[i] : i \in DOMAIN s}

\* ------------------------------------------------------------------------
\* Text: Python's str operations used by the code
\* ------------------------------------------------------------------------

Alphabet ==
    <<" ", ",", "-", "1:00", "2:00", "7", "8", "Ann", "Bob",
      "Monday", "Saturday", "Tuesday">>

SymRank(ch) == CHOOSE i \in DOMAIN Alphabet : Alphabet[i] = ch

RECURSIVE Str(_)
Str(t) == IF t = <<>> THEN "" ELSE Head(t) \o Str(Tail(t))

\* a < b for Python strings
RECURSIVE TextLess(_, _)
TextLess(a, b) ==
    IF b = <<>> THEN FALSE
    ELSE IF a = <<>> THEN TRUE
    ELSE IF Head(a) = Head(b) THEN TextLess(Tail(a), Tail(b))
    ELSE SymRank(Head(a)) < SymRank(Head(b))

RECURSIVE LStrip(_)
LStrip(t) == IF t # <<>> /\ Head(t) = " " THEN LStrip(Tail(t)) ELSE t

RECURSIVE RStrip(_)
RStrip(t) ==
    IF t # <<>> /\ t[Len(t)] = " " THEN RStrip(SubSeq(t, 1, Len(t) - 1)) ELSE t

\* str.strip()
Strip(t) == RStrip(LStrip(t))

\* str.split(sep): one more piece than there are separators
RECURSIVE Split(_, _)
Split(t, sep) ==
    IF \A i \in DOMAIN t : t[i] # sep THEN <<t>>
    ELSE LET k == CHOOSE i \in DOMAIN t :
                      t[i] = sep /\ \A j \in 1..(i - 1) : t[j] # sep
         IN  <<SubSeq(t, 1, k - 1)>> \o Split(SubSeq(t, k + 1, Len(t)), sep)

\* uuid.uuid4(): the n-th identifier drawn; all draws differ
Uuid(n) == "u" \o ToString(n)

\* ------------------------------------------------------------------------
\* attendance_logic.py: convert_import_to_internal_schema
\* A table (DataFrame of strings) is [columns: sequence of headers,
\* rows: sequence of functions header -> text].
\* ------------------------------------------------------------------------

None == "<None>"

Min(S) == CHOOSE x \in S : \A y \in S : x <= y

SetKey(row, k, v) == [x \in DOMAIN row \cup {k} |-> IF x = k THEN v ELSE row[x]]

\* row.get(k, "")
GetText(row, k) == IF k \in DOMAIN row THEN row[k] ELSE <<>>

NameCandidates ==
    <<"Player Name (First and Last)", "Player Name", "Name", "Player">>

\* "name" in c.lower(), over the headers the tables of this model use
ContainsName(c) ==
    c \in {"Player Name (First and Last)", "Player Name", "Name",
           "Parent/Guardian Name", "MemberName"}

choose_name_column(columns) ==
    LET hits == {i \in DOMAIN NameCandidates : NameCandidates[i] \in Range(columns)}
        fall == {i \in DOMAIN columns : ContainsName(columns[i])}
    IN  IF hits # {} THEN NameCandidates[Min(hits)]
        ELSE IF fall # {} THEN columns[Min(fall)]
        ELSE None

\* df.rename(columns={old: new})
Rename(df, old, new) ==
    IF old \notin Range(df.columns) THEN df
    ELSE [columns |-> [i \in DOMAIN df.columns |->
                          IF df.columns[i] = old THEN new ELSE df.columns[i]],
          rows    |-> [i \in DOMAIN df.rows |->
                          [k \in (DOMAIN df.rows[i] \ {old}) \cup {new} |->
                              IF k = new THEN df.rows[i][old] ELSE df.rows[i][k]]]]

\* df[col] = vals   (vals[i] is the value of row i)
SetColumn(df, col, vals) ==
    [columns |-> IF col \in Range(df.columns) THEN df.columns
                 ELSE Append(df.columns, col),
     rows    |-> [i \in DOMAIN df.rows |-> SetKey(df.rows[i], col, vals[i])]]

Blank(df) == [i \in DOMAIN df.rows |-> <<>>]

MapCols ==
    << <<"Player Age", "Age">>,
       <<"Parent/Guardian Name", "MemberName">>,
       <<"Parent/Guardian Email", "Email">>,
       <<"Parent/Guardian Phone Number", "Phone">> >>

RECURSIVE RenameAll(_, _)
RenameAll(df, pairs) ==
    IF pairs = <<>> THEN df
    ELSE RenameAll(Rename(df, Head(pairs)[1], Head(pairs)[2]), Tail(pairs))

RECURSIVE EnsureColumns(_, _)
EnsureColumns(df, cols) ==
    IF cols = <<>> THEN df
    ELSE EnsureColumns(IF Head(cols) \in Range(df.columns) THEN df
                       ELSE SetColumn(df, Head(cols), Blank(df)),
                       Tail(cols))

\* id0: the number of uuids drawn so far.  The row_id column given to the
\* raw rows draws one uuid per row.
convert_import_to_internal_schema(df_raw, id0) ==
    LET name_col == choose_name_column(df_raw.columns)
        d1 == IF name_col # None THEN Rename(df_raw, name_col, "Name") ELSE df_raw
        d2 == RenameAll(d1, MapCols)
        d3 == EnsureColumns(d2, <<"Name", "Age", "MemberName">>)
        d4 == SetColumn(SetColumn(d3, "Comments", Blank(d3)), "Fee", Blank(d3))
    IN  IF "row_id" \in Range(d4.columns) THEN d4
        ELSE SetColumn(d4, "row_id", [i \in DOMAIN d4.rows |-> <<Uuid(id0 + i)>>])

ConvertDraws(df_raw) ==
    IF "row_id" \in Range(df_raw.columns) THEN 0 ELSE Len(df_raw.rows)

\* ------------------------------------------------------------------------
\* attendance_logic.py: build_attendance
\* ------------------------------------------------------------------------

RECURSIVE Flatten(_)
Flatten(ss) == IF ss = <<>> THEN <<>> ELSE Head(ss) \o Flatten(Tail(ss))

\* The parts of the accepted session tokens of one cell, in input order.
ParseSessions(cell) ==
    LET raw    == Split(cell, ",")
        tokens == SelectSeq([i \in DOMAIN raw |-> Strip(raw[i])],
                            LAMBDA s : s # <<>>)
        parts  == [i \in DOMAIN tokens |->
                      LET p == Split(tokens[i], "-")
                      IN  [j \in DOMAIN p |-> Strip(p[j])]]
    IN  SelectSeq(parts, LAMBDA p : Len(p) = 3)

\* The records one signup row gives for one clinic, before row_id and sorting.
RowRecords(row, cc) ==
    LET times_field == GetText(row, cc.column)
        sessions    == ParseSessions(times_field)
    IN  IF times_field = <<>> THEN <<>>
        ELSE [i \in DOMAIN sessions |->
                 [Day        |-> sessions[i][1],
                  Clinic     |-> cc.clinic,
                  Time       |-> sessions[i][2] \o <<" ", "-", " ">> \o sessions[i][3],
                  Name       |-> GetText(row, "Name"),
                  Age        |-> GetText(row, "Age"),
                  MemberName |-> GetText(row, "MemberName"),
                  Email      |-> GetText(row, "Email"),
                  Phone      |-> GetText(row, "Phone")]]

ExpandRecords(df) ==
    Flatten([c \in DOMAIN CLINIC_COLUMNS |->
                IF CLINIC_COLUMNS[c].column \notin Range(df.columns) THEN <<>>
                ELSE Flatten([i \in DOMAIN df.rows |->
                                 RowRecords(df.rows[i], CLINIC_COLUMNS[c])])])

\* pd.Categorical(..., categories=order, ordered=True): the code of a value,
\* a value outside the categories being NaN, which sort_values puts last.
CatCode(order, v) ==
    IF v \in Range(order) THEN CHOOSE i \in DOMAIN order : order[i] = v
    ELSE Len(order) + 1

\* sort_values(["Day", "Clinic", "Time", "Name"]): r1 strictly before r2
KeyLess(r1, r2) ==
    LET d1 == CatCode(DAY_ORDER, Str(r1.Day))
        d2 == CatCode(DAY_ORDER, Str(r2.Day))
        c1 == CatCode(CLINIC_ORDER, r1.Clinic)
        c2 == CatCode(CLINIC_ORDER, r2.Clinic)
    IN  \/ d1 < d2
        \/ d1 = d2 /\ c1 < c2
        \/ d1 = d2 /\ c1 = c2 /\ TextLess(r1.Time, r2.Time)
        \/ d1 = d2 /\ c1 = c2 /\ r1.Time = r2.Time /\ TextLess(r1.Name, r2.Name)

\* the multi-column sort is stable: equal keys keep their order
RECURSIVE SortRecords(_)
SortRecords(s) ==
    IF s = <<>> THEN <<>>
    ELSE LET front == SortRecords(SubSeq(s, 1, Len(s) - 1))
             x     == s[Len(s)]
             k     == Cardinality({i \in DOMAIN front : ~KeyLess(x, front[i])})
         IN  SubSeq(front, 1, k) \o <<x>> \o SubSeq(front, k + 1, Len(front))

AttendanceColumns ==
    <<"Day", "Clinic", "Time", "Name", "Age", "MemberName", "Email", "Phone",
      "Comments", "Fee", "row_id">>

\* One record as the dict to_dict(orient="records") gives.
RecordRow(r) ==
    [k \in Range(AttendanceColumns) |->
        CASE k = "Day"        -> IF Str(r.Day) \in Range(DAY_ORDER) THEN Str(r.Day) ELSE NaN
          [] k = "Clinic"     -> IF r.Clinic \in Range(CLINIC_ORDER) THEN r.Clinic ELSE NaN
          [] k = "Time"       -> Str(r.Time)
          [] k = "Name"       -> Str(r.Name)
          [] k = "Age"        -> Str(r.Age)
          [] k = "MemberName" -> Str(r.MemberName)
          [] k = "Email"      -> Str(r.Email)
          [] k = "Phone"      -> Str(r.Phone)
          [] k = "Comments"   -> ""
          [] k = "Fee"        -> ""
          [] k = "row_id"     -> r.row_id]

\* records, as appended: record i draws uuid id0 + i, id0 being the number
\* of uuids drawn so far
EmittedRecords(df, id0) ==
    LET recs == ExpandRecords(df)
    IN  [i \in DOMAIN recs |->
            [k \in DOMAIN recs[i] \cup {"row_id"} |->
                IF k = "row_id" THEN Uuid(id0 + i) ELSE recs[i][k]]]

build_attendance(df, id0) ==
    LET sorted == SortRecords(EmittedRecords(df, id0))
    IN  [i \in DOMAIN sorted |-> RecordRow(sorted[i])]

BuildDraws(df) == Len(ExpandRecords(df))

\* ------------------------------------------------------------------------
\* app.py: the "sheets" collection and the MongoDB calls the handlers make.
\* A document is [filename, rows, dynamic_columns, created_at]; its
\* "session" label is left out: no handler's writes depend on it.
\* dynamic_columns is kept as a set: the code only tests membership in it
\* and compares it sorted.  The collection is the sequence of documents in
\* natural order: a document keeps its place when replaced or updated, a
\* new one goes last, and a call on "one" document takes the first match.
\* ------------------------------------------------------------------------

VARIABLES
    sheets,   \* the collection
    nextId,   \* uuids drawn so far
    now,      \* datetime.utcnow(), counted in writes of created_at
    today,    \* the day part of utcnow(), as used in date_tag
    nreq,     \* requests served
    pre,      \* the store and the day as they were before the last request
    last,     \* the last request and the message it flashed
    arg,      \* the argument a function of attendance_logic.py is called with
    ret,      \* what that call returned, None before it returns
    call,     \* per concurrent save_attendance request: where it stands
    wrote     \* per row_id: the field-set calls made on it, in order

vars == <<sheets, nextId, now, today, nreq, pre, last, arg, ret, call, wrote>>

\* the variables only the runs of single functions and of concurrent
\* requests use
aside == <<arg, ret, call, wrote>>

\* {key: v} as a query on a dict
Has(row, k, v) == k \in DOMAIN row /\ row[k] = v

\* d.get(k): falsy when absent or empty
Truthy(row, k) == k \in DOMAIN row /\ row[k] # ""

\* re.sub(r"\s+", "", clinic) on the clinic labels
SafeClinic(clinic) ==
    CASE clinic = "Red Ball Clinic"         -> "RedBallClinic"
      [] clinic = "Orange Ball Clinic"      -> "OrangeBallClinic"
      [] clinic = "Green Ball Clinic"       -> "GreenBallClinic"
      [] clinic = "Yellow Ball Clinic"      -> "YellowBallClinic"
      [] clinic = "High Performance Clinic" -> "HighPerformanceClinic"
      [] OTHER                              -> clinic

\* f"{day}_{safe_clinic}_{date_tag}.csv", kept in its three parts
Filename(day, clinic, date_tag) ==
    [day |-> day, clinic |-> SafeClinic(clinic), tag |-> date_tag]

\* A filter is given as hits, the set of the indices of the documents it
\* matches; an update as upd, where upd[i] is document i after the update.

\* index of the first document the filter matches, 0 when there is none
FirstMatch(hits) == IF hits = {} THEN 0 ELSE Min(hits)

\* replace_one(filter, doc, upsert=True)
ReplaceOneUpsert(docs, hits, doc) ==
    LET i == FirstMatch(hits)
    IN  IF i = 0 THEN Append(docs, doc) ELSE [docs EXCEPT ![i] = doc]

\* update_one(filter, update)
UpdateOne(docs, hits, upd) ==
    LET i == FirstMatch(hits)
    IN  IF i = 0 THEN docs ELSE [docs EXCEPT ![i] = upd[i]]

\* update_many({}, update)
UpdateMany(docs, upd) == [i \in DOMAIN docs |-> upd[i]]

\* delete_one(filter)
DeleteOne(docs, hits) ==
    LET i == FirstMatch(hits)
    IN  IF i = 0 THEN docs
        ELSE SubSeq(docs, 1, i - 1) \o SubSeq(docs, i + 1, Len(docs))

ByFilename(filename, doc) == doc.filename = filename

\* {"filename": filename} as a filter on the collection
Named(docs, filename) == {i \in DOMAIN docs : ByFilename(filename, docs[i])}

\* {"$pull": {"rows": {"row_id": rid}}}
PullRow(doc, rid) ==
    [doc EXCEPT !.rows = SelectSeq(doc.rows, LAMBDA r : ~Has(r, "row_id", rid))]

\* {"$push": {"rows": new_row}}
PushRow(doc, new_row) == [doc EXCEPT !.rows = Append(doc.rows, new_row)]

\* {"$set": {"rows.$[elem].<k>": upd[k]}}, array_filters elem.row_id = rid
SetElemFields(doc, rid, upd) ==
    [doc EXCEPT !.rows =
        [i \in DOMAIN doc.rows |->
            IF Has(doc.rows[i], "row_id", rid)
            THEN [k \in DOMAIN doc.rows[i] \cup DOMAIN upd |->
                     IF k \in DOMAIN upd THEN upd[k] ELSE doc.rows[i][k]]
            ELSE doc.rows[i]]]

\* {"rows": {"$elemMatch": {"Day": day, "Clinic": clinic}}}
ElemMatch(doc, day, clinic) ==
    \E i \in DOMAIN doc.rows :
        Has(doc.rows[i], "Day", day) /\ Has(doc.rows[i], "Clinic", clinic)

\* {"rows.Day": day, "rows.Clinic": clinic}: each condition on some row
RowsMatch(doc, day, clinic) ==
    /\ \E i \in DOMAIN doc.rows : Has(doc.rows[i], "Day", day)
    /\ \E i \in DOMAIN doc.rows : Has(doc.rows[i], "Clinic", clinic)

\* index of the document find_one returns, 0 for None
get_sheet_for_clinic(docs, day, clinic) ==
    FirstMatch({i \in DOMAIN docs : ElemMatch(docs[i], day, clinic)})

\* save_sheet_to_db without the upsert: a sheet is replaced only if stored
save_sheet_replace_only(docs, filename, rows, dynamic_columns, created_at) ==
    LET i == FirstMatch(Named(docs, filename))
    IN  IF i = 0 THEN docs
        ELSE [docs EXCEPT ![i] = [filename        |-> filename,
                                  rows            |-> rows,
                                  dynamic_columns |-> dynamic_columns,
                                  created_at      |-> created_at]]

save_sheet_to_db(docs, filename, rows, dynamic_columns, created_at) ==
    ReplaceOneUpsert(docs, Named(docs, filename),
                     [filename        |-> filename,
                      rows            |-> rows,
                      dynamic_columns |-> dynamic_columns,
                      created_at      |-> created_at])

add_row_to_sheet(docs, filename, new_row) ==
    UpdateOne(docs, Named(docs, filename),
              [i \in DOMAIN docs |-> PushRow(docs[i], new_row)])

update_sheet_rows(docs, filename, rows) ==
    UpdateOne(docs, Named(docs, filename),
              [i \in DOMAIN docs |-> [docs[i] EXCEPT !.rows = rows]])

update_sheet_dynamic_columns(docs, filename, dynamic_columns, rows) ==
    UpdateOne(docs, Named(docs, filename),
              [i \in DOMAIN docs |->
                  [docs[i] EXCEPT !.dynamic_columns = dynamic_columns,
                                  !.rows = rows]])

delete_sheet(docs, filename) ==
    DeleteOne(docs, Named(docs, filename))

\* ------------------------------------------------------------------------
\* app.py: index (POST), the import
\* A handler is an operator from the store db = [sheets, nextId, now] (and
\* today) to the store after it and the message flashed.
\* ------------------------------------------------------------------------

known_fields == {"row_id", "Name", "Age", "MemberName", "Comments", "Fee"}

\* the (Day, Clinic) keys of rows, in order of first appearance, rows
\* without a grouping key skipped
RECURSIVE GroupKeys(_)
GroupKeys(rows) ==
    IF rows = <<>> THEN <<>>
    ELSE LET front == GroupKeys(SubSeq(rows, 1, Len(rows) - 1))
             r     == rows[Len(rows)]
             key   == <<r["Day"], r["Clinic"]>>
         IN  IF r["Day"] = "" \/ r["Clinic"] = "" \/ key \in Range(front)
             THEN front ELSE Append(front, key)

GroupRows(rows, key) ==
    SelectSeq(rows, LAMBDA r : r["Day"] = key[1] /\ r["Clinic"] = key[2])

\* the loop over groups.items(): one replace_one per key
RECURSIVE ImportGroups(_, _, _, _, _, _)
ImportGroups(docs, keys, rows, dynamic_columns, clock, date_tag) ==
    IF keys = <<>> THEN docs
    ELSE LET key == Head(keys)
             doc == [filename        |-> Filename(key[1], key[2], date_tag),
                     rows            |-> GroupRows(rows, key),
                     dynamic_columns |-> dynamic_columns,
                     created_at      |-> clock + 1]
         IN  ImportGroups(
                 ReplaceOneUpsert(docs,
                     {i \in DOMAIN docs : RowsMatch(docs[i], key[1], key[2])}, doc),
                 Tail(keys), rows, dynamic_columns, clock + 1, date_tag)

index(db, date_tag, sheet_url, df_raw) ==
    IF sheet_url = ""
    THEN [db |-> db, flash |-> "Please paste a Google Sheet URL."]
    ELSE LET df_clean == convert_import_to_internal_schema(df_raw, db.nextId)
             id1      == db.nextId + ConvertDraws(df_raw)
             rows     == build_attendance(df_clean, id1)
             dynamic_columns ==
                 {c \in Range(AttendanceColumns) : c \notin known_fields}
             keys     == GroupKeys(rows)
         IN  [db    |-> [sheets |-> ImportGroups(db.sheets, keys, rows,
                                                 dynamic_columns, db.now, date_tag),
                         nextId |-> id1 + BuildDraws(df_clean),
                         now    |-> db.now + Len(keys)],
              flash |-> "Attendance sheet(s) saved to database (one per clinic/day)."]

\* ------------------------------------------------------------------------
\* app.py: save_attendance
\* A form is [player_name, age, parent, comments, fee, row_id, delete_flag:
\* the getlist() lists, dates: submitted "date__<col>" key -> its list].
\* ------------------------------------------------------------------------

\* xs[i] if i < len(xs) else "" (None and "" are both falsy where it is used)
At(xs, i) == IF i <= Len(xs) THEN xs[i] ELSE ""

\* a over b: the keys of both, a's value where both have one
Over(a, b) ==
    [k \in DOMAIN a \cup DOMAIN b |-> IF k \in DOMAIN a THEN a[k] ELSE b[k]]

AllDynamicCols(docs) == UNION {docs[i].dynamic_columns : i \in DOMAIN docs}

\* dynamic_values: only the dynamic columns whose key is in the form
DynamicValues(docs, form) ==
    [col \in AllDynamicCols(docs) \cap DOMAIN form.dates |-> form.dates[col]]

DynAt(dynamic_values, i) ==
    [col \in DOMAIN dynamic_values |-> At(dynamic_values[col], i)]

\* a field-set that writes the submitted name and ad-hoc columns only
update_fields_name_only(form, dynamic_values, i) ==
    Over(DynAt(dynamic_values, i), [Name |-> At(form.player_name, i)])

update_fields(form, dynamic_values, i) ==
    Over(DynAt(dynamic_values, i),
         [Name       |-> At(form.player_name, i),
          Age        |-> At(form.age, i),
          MemberName |-> At(form.parent, i),
          Comments   |-> At(form.comments, i),
          Fee        |-> At(form.fee, i)])

new_row(rid, day, clinic, form, dynamic_values, i) ==
    Over(DynAt(dynamic_values, i),
         [row_id     |-> rid,
          Day        |-> day,
          Clinic     |-> clinic,
          Name       |-> At(form.player_name, i),
          Age        |-> At(form.age, i),
          MemberName |-> At(form.parent, i),
          Comments   |-> At(form.comments, i),
          Fee        |-> At(form.fee, i)])

\* count_documents({"filename": filename, "rows.row_id": rid}) > 0
Contains(docs, filename, rid) ==
    \E d \in DOMAIN docs :
        /\ docs[d].filename = filename
        /\ \E j \in DOMAIN docs[d].rows : Has(docs[d].rows[j], "row_id", rid)

\* one pass of "for i in range(n)" on the target sheet: st = [sheets, nextId]
SaveStep(st, filename, day, clinic, form, dynamic_values, i) ==
    LET rid    == At(form.row_id, i)
        docs   == st.sheets
        byName == Named(docs, filename)
    IN  IF rid # "" /\ At(form.delete_flag, i) = "1"
        THEN [st EXCEPT !.sheets =
                 UpdateOne(docs, byName,
                           [d \in DOMAIN docs |-> PullRow(docs[d], rid)])]
        ELSE IF rid # ""
        THEN IF Contains(docs, filename, rid)
             THEN [st EXCEPT !.sheets =
                      UpdateOne(docs, byName,
                                [d \in DOMAIN docs |->
                                    SetElemFields(docs[d], rid,
                                        update_fields(form, dynamic_values, i))])]
             ELSE [st EXCEPT !.sheets =
                      UpdateOne(docs, byName,
                                [d \in DOMAIN docs |->
                                    PushRow(docs[d],
                                        new_row(rid, day, clinic, form,
                                                dynamic_values, i))])]
        ELSE [sheets |-> UpdateOne(docs, byName,
                             [d \in DOMAIN docs |->
                                 PushRow(docs[d],
                                     new_row(Uuid(st.nextId + 1), day, clinic, form,
                                             dynamic_values, i))]),
              nextId |-> st.nextId + 1]

RECURSIVE SaveLoop(_, _, _, _, _, _, _, _)
SaveLoop(st, filename, day, clinic, form, dynamic_values, i, n) ==
    IF i > n THEN st
    ELSE SaveLoop(SaveStep(st, filename, day, clinic, form, dynamic_values, i),
                  filename, day, clinic, form, dynamic_values, i + 1, n)

\* the rows of the sheet created when no sheet matches: st = [rows, nextId]
RECURSIVE NewSheetRows(_, _, _, _, _, _, _)
NewSheetRows(st, day, clinic, form, dynamic_values, i, n) ==
    IF i > n THEN st
    ELSE IF At(form.delete_flag, i) = "1"
    THEN NewSheetRows(st, day, clinic, form, dynamic_values, i + 1, n)
    ELSE LET given == At(form.row_id, i) # ""
             rid   == IF given THEN At(form.row_id, i) ELSE Uuid(st.nextId + 1)
         IN  NewSheetRows(
                 [rows   |-> Append(st.rows,
                                 new_row(rid, day, clinic, form, dynamic_values, i)),
                  nextId |-> IF given THEN st.nextId ELSE st.nextId + 1],
                 day, clinic, form, dynamic_values, i + 1, n)

save_attendance(db, date_tag, day, clinic, form) ==
    IF day = "" \/ clinic = ""
    THEN [db |-> db, flash |-> "Missing clinic information."]
    ELSE
    LET n              == Len(form.player_name)
        dynamic_cols   == AllDynamicCols(db.sheets)
        dynamic_values == DynamicValues(db.sheets, form)
        target         == get_sheet_for_clinic(db.sheets, day, clinic)
    IN  IF target # 0
        THEN LET filename     == db.sheets[target].filename
                 existing_dyn == db.sheets[target].dynamic_columns
                 merged_dyn   == existing_dyn \cup dynamic_cols
                 docs1 == IF merged_dyn # existing_dyn
                          THEN UpdateOne(db.sheets, Named(db.sheets, filename),
                                   [d \in DOMAIN db.sheets |->
                                       [db.sheets[d] EXCEPT
                                           !.dynamic_columns = merged_dyn]])
                          ELSE db.sheets
                 st    == SaveLoop([sheets |-> docs1, nextId |-> db.nextId],
                                   filename, day, clinic, form, dynamic_values, 1, n)
             IN  [db    |-> [sheets |-> st.sheets, nextId |-> st.nextId, now |-> db.now],
                  flash |-> "Attendance saved"]
        ELSE LET st == NewSheetRows([rows |-> <<>>, nextId |-> db.nextId],
                                    day, clinic, form, dynamic_values, 1, n)
             IN  [db    |-> [sheets |-> save_sheet_to_db(db.sheets,
                                            Filename(day, clinic, date_tag),
                                            st.rows, dynamic_cols, db.now + 1),
                             nextId |-> st.nextId,
                             now    |-> db.now + 1],
                  flash |-> "Attendance saved"]

\* ------------------------------------------------------------------------
\* app.py: add_row, add_date_column, delete_row, delete_sheet_route
\* ------------------------------------------------------------------------

\* find_one({"filename": {"$regex": "^<day>_<safe_clinic>"}},
\*          sort=[("created_at", -1)])
LatestByPrefix(docs, day, clinic) ==
    LET hits == {i \in DOMAIN docs :
                    /\ docs[i].filename.day = day
                    /\ docs[i].filename.clinic = SafeClinic(clinic)}
    IN  IF hits = {} THEN 0
        ELSE Min({i \in hits :
                     \A j \in hits : docs[j].created_at <= docs[i].created_at})

add_row(db, date_tag, day, clinic) ==
    IF day = "" \/ clinic = ""
    THEN [db |-> db, flash |-> "Missing clinic information."]
    ELSE
    LET found  == get_sheet_for_clinic(db.sheets, day, clinic)
        target == IF found # 0 THEN found
                  ELSE LatestByPrefix(db.sheets, day, clinic)
        blank  == [row_id     |-> Uuid(db.nextId + 1),
                   Day        |-> day,
                   Clinic     |-> clinic,
                   Name       |-> "",
                   Age        |-> "",
                   MemberName |-> "",
                   Comments   |-> "",
                   Fee        |-> ""]
    IN  IF target # 0
        THEN LET dynamic_columns == db.sheets[target].dynamic_columns
                 row == Over([col \in dynamic_columns |-> ""], blank)
             IN  [db    |-> [sheets |-> add_row_to_sheet(db.sheets,
                                            db.sheets[target].filename, row),
                             nextId |-> db.nextId + 1,
                             now    |-> db.now],
                  flash |-> "Row added."]
        ELSE [db    |-> [sheets |-> save_sheet_to_db(db.sheets,
                                        Filename(day, clinic, date_tag),
                                        <<blank>>, {}, db.now + 1),
                         nextId |-> db.nextId + 1,
                         now    |-> db.now + 1],
              flash |-> "Row added."]

add_date_column(db, day, clinic, new_col) ==
    IF day = "" \/ clinic = "" \/ new_col = ""
    THEN [db |-> db, flash |-> "Missing parameters."]
    ELSE
    LET sheet == get_sheet_for_clinic(db.sheets, day, clinic)
    IN  IF sheet = 0
        THEN [db |-> db, flash |-> "Sheet not found for that clinic."]
        ELSE IF new_col \in db.sheets[sheet].dynamic_columns
        THEN [db |-> db, flash |-> "Date column already exists."]
        ELSE LET doc  == db.sheets[sheet]
                 rows == [i \in DOMAIN doc.rows |->
                             IF new_col \in DOMAIN doc.rows[i] THEN doc.rows[i]
                             ELSE SetKey(doc.rows[i], new_col, "")]
             IN  [db    |-> [db EXCEPT !.sheets =
                                update_sheet_dynamic_columns(db.sheets, doc.filename,
                                    doc.dynamic_columns \cup {new_col}, rows)],
                  flash |-> "Date column added."]

\* delete_row with update_one in place of update_many: only the first sheet
\* holding the row_id loses it
delete_row_first_only(db, row_id) ==
    IF row_id = ""
    THEN [db |-> db, flash |-> "Missing row_id."]
    ELSE LET docs  == db.sheets
             holds == {i \in DOMAIN docs :
                          \E j \in DOMAIN docs[i].rows :
                              docs[i].rows[j]["row_id"] = row_id}
             pull  == [i \in DOMAIN docs |-> PullRow(docs[i], row_id)]
         IN  [db    |-> [db EXCEPT !.sheets = UpdateOne(docs, holds, pull)],
              flash |-> "Row deleted."]

delete_row(db, row_id) ==
    IF row_id = ""
    THEN [db |-> db, flash |-> "Missing row_id."]
    ELSE [db    |-> [db EXCEPT !.sheets =
                        UpdateMany(db.sheets,
                            [i \in DOMAIN db.sheets |->
                                PullRow(db.sheets[i], row_id)])],
          flash |-> "Row deleted."]

\* the loop of delete_sheet_route over the sheets read at its start
RECURSIVE DeleteTimeLoop(_, _, _, _, _)
DeleteTimeLoop(docs, snapshot, day, clinic, time) ==
    IF snapshot = <<>> THEN docs
    ELSE LET sheet    == Head(snapshot)
             new_rows == SelectSeq(sheet.rows,
                             LAMBDA r : ~(/\ Has(r, "Day", day)
                                          /\ Has(r, "Clinic", clinic)
                                          /\ Has(r, "Time", time)))
         IN  DeleteTimeLoop(
                 IF Len(new_rows) # Len(sheet.rows)
                 THEN update_sheet_rows(docs, sheet.filename, new_rows)
                 ELSE docs,
                 Tail(snapshot), day, clinic, time)

\* request.form.get("filename") when the form names no file
NoFilename == [day |-> "", clinic |-> "", tag |-> -1]

delete_sheet_route(db, filename, day, clinic, time) ==
    IF day # "" /\ clinic # "" /\ time # ""
    THEN [db    |-> [db EXCEPT !.sheets =
                        DeleteTimeLoop(db.sheets, db.sheets, day, clinic, time)],
          flash |-> "Deleted clinic time."]
    ELSE IF filename # NoFilename
    THEN [db    |-> [db EXCEPT !.sheets = delete_sheet(db.sheets, filename)],
          flash |-> "Deleted file from database."]
    ELSE [db |-> db, flash |-> "Missing deletion parameters."]

\* ------------------------------------------------------------------------
\* app.py: export_all_sheets_to_csv.  The CSV text is kept as its table: the
\* set of the header's columns and, per line, the text of each column.
\* ------------------------------------------------------------------------

\* f"{day}_{safe_clinic}_{date_tag}.csv" as stored in the document
FilenameText(fn) ==
    fn.day \o "_" \o fn.clinic \o "_" \o ToString(fn.tag) \o ".csv"

\* all_rows: a copy of every row of every sheet, with its sheet's filename
RECURSIVE AllRows(_)
AllRows(docs) ==
    IF docs = <<>> THEN <<>>
    ELSE [j \in DOMAIN Head(docs).rows |->
             SetKey(Head(docs).rows[j], "filename",
                    FilenameText(Head(docs).filename))]
         \o AllRows(Tail(docs))

\* what to_csv writes for a cell: nothing for a missing value
CsvCell(row, col) ==
    IF col \notin DOMAIN row \/ row[col] = NaN THEN "" ELSE row[col]

\* the export without the frame: every line has only its own record's keys
export_rows_as_stored(docs) ==
    LET all_rows == AllRows(docs)
    IN  [header |-> UNION {DOMAIN all_rows[k] : k \in DOMAIN all_rows},
         lines  |-> [k \in DOMAIN all_rows |->
                        [col \in DOMAIN all_rows[k] |-> CsvCell(all_rows[k], col)]]]

export_all_sheets_to_csv(docs) ==
    LET all_rows == AllRows(docs)
        columns  == UNION {DOMAIN all_rows[k] : k \in DOMAIN all_rows}
    IN  IF all_rows = <<>> THEN [header |-> {}, lines |-> <<>>]
        ELSE [header |-> columns,
              lines  |-> [k \in DOMAIN all_rows |->
                             [col \in columns |-> CsvCell(all_rows[k], col)]]]

\* GET /export_all: the response body
export_all(db) == export_all_sheets_to_csv(db.sheets)

\* ------------------------------------------------------------------------
\* The requests the model serves
\* ------------------------------------------------------------------------

MaxReq == 3       \* requests served in one run
MaxDay == 1       \* days that pass during a run

\* "Day - start - end" as the text of one session token
Token(day, start, end) ==
    <<day, " ", "-", " ", start, " ", "-", " ", end>>

SignupColumns == <<"Player Name", "Player Age", "Red Ball Clinic - Day & Time">>

Signup(name, age, red) ==
    [k \in Range(SignupColumns) |->
        CASE k = "Player Name" -> <<name>>
          [] k = "Player Age"  -> <<age>>
          [] OTHER             -> red]

\* the sign-up tables fetch_csv_from_google may return
ImportTables ==
    << [columns |-> SignupColumns,
        rows    |-> << Signup("Ann", "7",
                              Token("Monday", "1:00", "2:00") \o <<",", " ">>
                              \o Token("Tuesday", "1:00", "2:00")) >>],
       [columns |-> SignupColumns,
        rows    |-> << Signup("Bob", "8", Token("Monday", "1:00", "2:00")),
                       Signup("Ann", "7", Token("Monday", "1:00", "2:00")) >>] >>

ReqDays == {"Monday", "Tuesday"}
ReqClinics == {"Red Ball Clinic"}
ReqTimes == {"1:00 - 2:00"}
ReqCols == {"c1"}

AllRowIds(docs) ==
    UNION {{docs[i].rows[j]["row_id"] : j \in DOMAIN docs[i].rows} : i \in DOMAIN docs}

\* row ids a client may send: none, one no sheet holds, one it was shown
RidChoices(docs) == {"", "x1"} \cup AllRowIds(docs)

\* the fields typed into row i of a form
Typed ==
    << [name |-> "Cy",  age |-> "9", parent |-> "Pat", comments |-> "late", fee |-> "5"],
       [name |-> "Dee", age |-> "6", parent |-> "Quin", comments |-> "new", fee |-> "3"] >>

\* the "date__<col>" keys of a form with n rows: none, or one registered
\* column (keys of columns no sheet registers are never read)
DateChoices(docs, n) ==
    {<<>>}
    \cup {[c \in {col} |-> [i \in 1..n |-> v]] :
             col \in AllDynamicCols(docs) \cap ReqCols, v \in {"", "x"}}
    \cup (IF "Day" \in AllDynamicCols(docs)
          THEN {[c \in {"Day"} |-> [i \in 1..n |-> "Tuesday"]]}
          ELSE {})

MakeForm(rids, flags, dates) ==
    [player_name |-> [i \in DOMAIN rids |-> Typed[i].name],
     age         |-> [i \in DOMAIN rids |-> Typed[i].age],
     parent      |-> [i \in DOMAIN rids |-> Typed[i].parent],
     comments    |-> [i \in DOMAIN rids |-> Typed[i].comments],
     fee         |-> [i \in DOMAIN rids |-> Typed[i].fee],
     row_id      |-> rids,
     delete_flag |-> flags,
     dates       |-> dates]

\* forms of one row; forms of two rows that repeat a row id or name two
\* stored rows; the form without rows
Forms(docs) ==
    {MakeForm(<<>>, <<>>, <<>>)}
    \cup {MakeForm(<<a>>, <<f>>, d) :
             a \in RidChoices(docs), f \in {"0", "1"}, d \in DateChoices(docs, 1)}
    \cup {MakeForm(p, f, <<>>) :
             p \in {<<a, a>> : a \in RidChoices(docs)}
                   \cup {q \in AllRowIds(docs) \X AllRowIds(docs) : q[1] # q[2]},
             f \in {<<"0", "0">>, <<"1", "0">>, <<"0", "1">>}}

NoForm == MakeForm(<<>>, <<>>, <<>>)

Request(op) ==
    [op |-> op, day |-> "", clinic |-> "", form |-> NoForm, sheet_url |-> "",
     table |-> 0, new_col |-> "", row_id |-> "", filename |-> NoFilename, time |-> "",
     flash |-> "", body |-> <<>>]

DB == [sheets |-> sheets, nextId |-> nextId, now |-> now]

\* a call that has not returned, and one that returned v
NotReturned == [done |-> FALSE, value |-> <<>>]
Returned(v) == [done |-> TRUE, value |-> v]

\* ------------------------------------------------------------------------
\* The state machine
\* ------------------------------------------------------------------------

Init ==
    /\ sheets = <<>>
    /\ nextId = 0
    /\ now = 0
    /\ today = 0
    /\ nreq = 0
    /\ pre = [sheets |-> <<>>, nextId |-> 0, now |-> 0, today |-> 0]
    /\ last = Request("")
    /\ arg = <<>>
    /\ ret = NotReturned
    /\ call = <<>>
    /\ wrote = <<>>

\* a request is served: res is what its handler returns
Serve(req, res) ==
    /\ nreq < MaxReq
    /\ nreq' = nreq + 1
    /\ sheets' = res.db.sheets
    /\ nextId' = res.db.nextId
    /\ now' = res.db.now
    /\ pre' = [sheets |-> sheets, nextId |-> nextId, now |-> now, today |-> today]
    /\ last' = [req EXCEPT !.flash = res.flash]
    /\ UNCHANGED <<today, aside>>

Import ==
    \E url \in {"", "url"}, t \in DOMAIN ImportTables :
        /\ url = "" => t = 1
        /\ Serve([Request("index") EXCEPT !.sheet_url = url, !.table = t],
                 index(DB, today, url, ImportTables[t]))

SaveAttendance ==
    \E day \in ReqDays, clinic \in ReqClinics, form \in Forms(sheets) :
        Serve([Request("save_attendance") EXCEPT
                  !.day = day, !.clinic = clinic, !.form = form],
              save_attendance(DB, today, day, clinic, form))

AddRow ==
    \E day \in ReqDays, clinic \in ReqClinics :
        Serve([Request("add_row") EXCEPT !.day = day, !.clinic = clinic],
              add_row(DB, today, day, clinic))

AddDateColumn ==
    \E day \in ReqDays, clinic \in ReqClinics, new_col \in ReqCols :
        Serve([Request("add_date_column") EXCEPT
                  !.day = day, !.clinic = clinic, !.new_col = new_col],
              add_date_column(DB, day, clinic, new_col))

DeleteRow ==
    \E row_id \in RidChoices(sheets) :
        Serve([Request("delete_row") EXCEPT !.row_id = row_id],
              delete_row(DB, row_id))

DeleteSheet ==
    \/ \E day \in ReqDays, clinic \in ReqClinics, time \in ReqTimes :
           Serve([Request("delete_sheet") EXCEPT
                     !.day = day, !.clinic = clinic, !.time = time],
                 delete_sheet_route(DB, NoFilename, day, clinic, time))
    \/ \E i \in DOMAIN sheets :
           Serve([Request("delete_sheet") EXCEPT !.filename = sheets[i].filename],
                 delete_sheet_route(DB, sheets[i].filename, "", "", ""))

ExportAll ==
    Serve([Request("export_all") EXCEPT !.body = export_all(DB)],
          [db |-> DB, flash |-> ""])

\* midnight (UTC) passes
NextDay ==
    /\ today < MaxDay
    /\ today' = today + 1
    /\ UNCHANGED <<sheets, nextId, now, nreq, pre, last, aside>>

Next ==
    \/ Import
    \/ SaveAttendance
    \/ AddRow
    \/ AddDateColumn
    \/ DeleteRow
    \/ DeleteSheet
    \/ ExportAll
    \/ NextDay

Spec == Init /\ [][Next]_vars

\* ------------------------------------------------------------------------
\* Properties.  Each is about the last request served: pre is the store it
\* found, sheets the store it left, last the request and its message.
\* ------------------------------------------------------------------------

Editable == {"Name", "Age", "MemberName", "Comments", "Fee"}
CoreFields == Range(AttendanceColumns)

RowIds(doc) == {doc.rows[j]["row_id"] : j \in DOMAIN doc.rows}

\* the sheet the last request's (day, clinic) matched in the store it found
PreTarget == get_sheet_for_clinic(pre.sheets, last.day, last.clinic)

Saved == last.op = "save_attendance"

\* the value row i of the last form submits for an editable field
Submitted(k, i) ==
    CASE k = "Name"       -> At(last.form.player_name, i)
      [] k = "Age"        -> At(last.form.age, i)
      [] k = "MemberName" -> At(last.form.parent, i)
      [] k = "Comments"   -> At(last.form.comments, i)
      [] k = "Fee"        -> At(last.form.fee, i)

\* C1: save_attendance with one submitted row whose row_id is in the
\* matched sheet changes, on the record with that row_id, only the five
\* editable fields (to the submitted values) and the ad-hoc columns the
\* form submits (to the submitted values, the empty string included):
\* row_id, Day, Clinic, Time, every other core field and every ad-hoc
\* column absent from the form keep their values, and every other record
\* of the sheet is unchanged.
C1_EditChangesOnlySubmitted ==
    (/\ Saved
     /\ PreTarget # 0
     /\ Len(last.form.player_name) = 1
     /\ last.form.delete_flag[1] # "1"
     /\ last.form.row_id[1] \in RowIds(pre.sheets[PreTarget]))
    => LET rid    == last.form.row_id[1]
           before == pre.sheets[PreTarget].rows
           after  == sheets[PreTarget].rows
       IN  /\ Len(after) = Len(before)
           /\ \A j \in DOMAIN before :
                IF before[j]["row_id"] # rid THEN after[j] = before[j]
                ELSE /\ DOMAIN before[j] \subseteq DOMAIN after[j]
                     /\ \A k \in DOMAIN before[j] :
                          IF k \in Editable
                          THEN after[j][k] = Submitted(k, 1)
                          ELSE IF k \notin CoreFields /\ k \in DOMAIN last.form.dates
                          THEN after[j][k] = last.form.dates[k][1]
                          ELSE after[j][k] = before[j][k]

\* the sequence without the elements whose row_id is in ids
RECURSIVE Without(_, _)
Without(rows, ids) ==
    IF rows = <<>> THEN <<>>
    ELSE IF Head(rows)["row_id"] \in ids THEN Without(Tail(rows), ids)
    ELSE <<Head(rows)>> \o Without(Tail(rows), ids)

IdsOf(rows) == [j \in DOMAIN rows |-> rows[j]["row_id"]]

FlaggedRows == {i \in DOMAIN last.form.player_name : At(last.form.delete_flag, i) = "1"}

\* C2: after save_attendance on a matched sheet with a batch in which some
\* rows carry the delete flag, the sheet holds no record whose row_id was
\* flagged, the records it held before whose row_id was not flagged are all
\* still there in the same order, and no flagged row was created: the sheet
\* grew by at most one record per non-flagged row.
C2_DeleteFlagRemoves ==
    (Saved /\ PreTarget # 0 /\ FlaggedRows # {})
    => LET flagged == {last.form.row_id[i] : i \in FlaggedRows}
           before  == pre.sheets[PreTarget].rows
           after   == sheets[PreTarget].rows
           kept    == IdsOf(Without(before, flagged))
       IN  /\ RowIds(sheets[PreTarget]) \cap flagged = {}
           /\ IdsOf(Without(after, RowIds(sheets[PreTarget]) \ Range(kept))) = kept
           /\ Len(after) <= Len(kept)
                  + Cardinality(DOMAIN last.form.player_name \ FlaggedRows)

\* the rows the last import expanded its table into
ImportedRows ==
    build_attendance(
        convert_import_to_internal_schema(ImportTables[last.table], pre.nextId),
        pre.nextId + ConvertDraws(ImportTables[last.table]))

Imported == last.op = "index" /\ last.sheet_url # ""

\* C3: after an import, for every (Day, Clinic) of the imported rows exactly
\* one stored sheet has a record with that key, and its records are exactly
\* the imported rows of that key.
C3_ImportReplacesGroup ==
    Imported
    => \A r \in Range(ImportedRows) :
          LET day    == r["Day"]
              clinic == r["Clinic"]
              having == {i \in DOMAIN sheets : ElemMatch(sheets[i], day, clinic)}
          IN  /\ Cardinality(having) = 1
              /\ \A i \in having :
                    sheets[i].rows = GroupRows(ImportedRows, <<day, clinic>>)

\* the last request was save_attendance or add_row for a (day, clinic) no
\* stored sheet matched
Unmatched(op) == last.op = op /\ last.day # "" /\ last.clinic # "" /\ PreTarget = 0

\* C4 as stated: save_attendance or add_row for a (day, clinic) that no
\* stored sheet matches signals a not-found outcome and leaves storage
\* unchanged.
C4_NotFoundLeavesStore ==
    (Unmatched("save_attendance") \/ Unmatched("add_row"))
    => /\ sheets = pre.sheets
       /\ last.flash \notin {"Attendance saved", "Row added."}

\* the rows of the last form that carry no delete flag, in order
RECURSIVE Unflagged(_)
Unflagged(i) ==
    IF i > Len(last.form.player_name) THEN <<>>
    ELSE IF At(last.form.delete_flag, i) = "1" THEN Unflagged(i + 1)
    ELSE <<i>> \o Unflagged(i + 1)

\* docs is before with the document at p put in place or, when p is one
\* past the end, added; every other document is unchanged
OnlyChanged(before, docs, p) ==
    /\ Len(docs) = (IF p > Len(before) THEN Len(before) + 1 ELSE Len(before))
    /\ \A j \in DOMAIN before : j # p => docs[j] = before[j]

\* C4 as amended: no not-found outcome is signalled, the group is made on
\* demand.  save_attendance replaces or creates the sheet named
\* day_clinic_date, which then holds one record per submitted row without a
\* delete flag, in order, with the submitted row_id (a fresh one where none
\* was submitted) and the submitted field values.  add_row appends its one
\* record, with a fresh row_id, to a sheet whose filename begins day_clinic
\* when there is one, and otherwise creates the sheet named day_clinic_date
\* holding just that record, tagged (day, clinic).  No other sheet changes.
C4_CreatesOnDemand ==
    LET name    == Filename(last.day, last.clinic, pre.today)
        at      == FirstMatch(Named(pre.sheets, name))
        p       == IF at = 0 THEN Len(pre.sheets) + 1 ELSE at
        kept    == Unflagged(1)
        share   == LatestByPrefix(pre.sheets, last.day, last.clinic)
    IN  /\ Unmatched("save_attendance") =>
            /\ last.flash = "Attendance saved"
            /\ OnlyChanged(pre.sheets, sheets, p)
            /\ sheets[p].filename = name
            /\ Len(sheets[p].rows) = Len(kept)
            /\ \A k \in DOMAIN kept :
                 LET r == sheets[p].rows[k]
                 IN  /\ \A f \in Editable \ DOMAIN last.form.dates :
                            r[f] = Submitted(f, kept[k])
                     /\ IF last.form.row_id[kept[k]] # ""
                        THEN r["row_id"] = last.form.row_id[kept[k]]
                        ELSE r["row_id"] \notin AllRowIds(pre.sheets)
            /\ \A k1, k2 \in DOMAIN kept :
                 (k1 # k2 /\ last.form.row_id[kept[k1]] = "")
                 => sheets[p].rows[k1]["row_id"] # sheets[p].rows[k2]["row_id"]
        /\ Unmatched("add_row") =>
            /\ last.flash = "Row added."
            /\ IF share = 0
               THEN /\ OnlyChanged(pre.sheets, sheets, Len(pre.sheets) + 1)
                    /\ sheets[Len(sheets)].filename = name
                    /\ Len(sheets[Len(sheets)].rows) = 1
                    /\ sheets[Len(sheets)].rows[1]["Day"] = last.day
                    /\ sheets[Len(sheets)].rows[1]["Clinic"] = last.clinic
                    /\ sheets[Len(sheets)].rows[1]["row_id"] \notin AllRowIds(pre.sheets)
               ELSE \E q \in DOMAIN pre.sheets :
                    /\ pre.sheets[q].filename = pre.sheets[share].filename
                    /\ OnlyChanged(pre.sheets, sheets, q)
                    /\ Len(sheets[q].rows) = Len(pre.sheets[q].rows) + 1
                    /\ SubSeq(sheets[q].rows, 1, Len(pre.sheets[q].rows)) = pre.sheets[q].rows
                    /\ sheets[q].rows[Len(sheets[q].rows)]["row_id"]
                           \notin AllRowIds(pre.sheets)
                    /\ [sheets[q] EXCEPT !.rows = pre.sheets[q].rows] = pre.sheets[q]

\* a sheet was made for a form that named no stored group
C4_Witness ==
    /\ Unmatched("save_attendance")
    /\ Len(sheets) = Len(pre.sheets) + 1
    /\ Len(sheets[Len(sheets)].rows) = 2
    /\ pre.sheets # <<>>

\* C5: add_row for a (day, clinic) a stored sheet matches appends exactly
\* one record to that sheet: its row_id is none the sheet held, its Day and
\* Clinic are the given day and clinic, every other field of it, each
\* column registered on the sheet included, is the empty string, and the
\* records the sheet held are unchanged.
C5_AddRowAppendsBlank ==
    (last.op = "add_row" /\ PreTarget # 0)
    => LET before == pre.sheets[PreTarget]
           after  == sheets[PreTarget]
           n      == Len(before.rows)
       IN  /\ Len(after.rows) = n + 1
           /\ SubSeq(after.rows, 1, n) = before.rows
           /\ LET r == after.rows[n + 1]
              IN  /\ r["row_id"] \notin RowIds(before)
                  /\ r["Day"] = last.day
                  /\ r["Clinic"] = last.clinic
                  /\ before.dynamic_columns \subseteq DOMAIN r
                  /\ \A k \in DOMAIN r \ {"row_id", "Day", "Clinic"} : r[k] = ""

\* C6: add_date_column(day, clinic, new_col): when no sheet matches, the
\* store is unchanged and "not found" is signalled; when the matched sheet
\* already registers new_col, the store is unchanged and "already exists" is
\* signalled; otherwise the matched sheet registers new_col, every record of
\* it has the key, with the empty string where the record did not carry it,
\* and no other field of any record changes.
C6_AddDateColumn ==
    (last.op = "add_date_column" /\ last.day # "" /\ last.clinic # ""
        /\ last.new_col # "")
    => IF PreTarget = 0
       THEN sheets = pre.sheets /\ last.flash = "Sheet not found for that clinic."
       ELSE IF last.new_col \in pre.sheets[PreTarget].dynamic_columns
       THEN sheets = pre.sheets /\ last.flash = "Date column already exists."
       ELSE LET before == pre.sheets[PreTarget]
                after  == sheets[PreTarget]
            IN  /\ after.dynamic_columns = before.dynamic_columns \cup {last.new_col}
                /\ Len(after.rows) = Len(before.rows)
                /\ \A j \in DOMAIN before.rows :
                     /\ DOMAIN after.rows[j] = DOMAIN before.rows[j] \cup {last.new_col}
                     /\ \A k \in DOMAIN before.rows[j] :
                            after.rows[j][k] = before.rows[j][k]
                     /\ last.new_col \notin DOMAIN before.rows[j]
                            => after.rows[j][last.new_col] = ""

\* the rows of the last form without a delete flag whose row_id is given
\* once in the form and is not in the matched sheet
UnknownRows ==
    {i \in DOMAIN last.form.player_name :
        /\ At(last.form.delete_flag, i) # "1"
        /\ last.form.row_id[i] # ""
        /\ last.form.row_id[i] \notin RowIds(pre.sheets[PreTarget])
        /\ \A j \in DOMAIN last.form.row_id :
               last.form.row_id[j] = last.form.row_id[i] => j = i}

\* C7: save_attendance on a matched sheet with a non-flagged row whose
\* row_id the sheet does not hold appends exactly one record with that
\* row_id to the sheet, tagged with the given day and clinic and carrying
\* the submitted values, and the row modifies no record the sheet held.
C7_UnknownRowIdAppended ==
    (Saved /\ PreTarget # 0)
    => \A i \in UnknownRows :
          LET rid    == last.form.row_id[i]
              before == pre.sheets[PreTarget].rows
              after  == sheets[PreTarget].rows
              new    == {j \in DOMAIN after : after[j]["row_id"] = rid}
          IN  /\ Cardinality(new) = 1
              /\ \A j \in new :
                    /\ after[j]["Day"] = last.day
                    /\ after[j]["Clinic"] = last.clinic
                    /\ \A k \in Editable : after[j][k] = Submitted(k, i)
              /\ \A j \in DOMAIN before :
                    before[j]["row_id"] \notin Range(last.form.row_id)
                    => \E m \in DOMAIN after : after[m] = before[j]

\* C8: delete_row(row_id) removes every record with that row_id from every
\* sheet and changes nothing else: the stored sheets are the same ones, in
\* the same order, with the same filename, columns and creation time, a
\* sheet that lost its last record included, and the other records of every
\* sheet are unchanged and in the same order.
C8_DeleteRowRemovesOnly ==
    (last.op = "delete_row" /\ last.row_id # "")
    => /\ Len(sheets) = Len(pre.sheets)
       /\ \A i \in DOMAIN pre.sheets :
            sheets[i] = [pre.sheets[i] EXCEPT
                            !.rows = Without(pre.sheets[i].rows, {last.row_id})]

\* delete_row took the last record of a sheet and the sheet is still stored
C8_Witness ==
    /\ last.op = "delete_row"
    /\ last.row_id # ""
    /\ Len(sheets) = Len(pre.sheets)
    /\ \E i \in DOMAIN pre.sheets :
          /\ last.row_id \in RowIds(pre.sheets[i])
          /\ sheets[i].rows = <<>>
    /\ \E i \in DOMAIN pre.sheets :
          /\ last.row_id \notin RowIds(pre.sheets[i])
          /\ pre.sheets[i].rows # <<>>

\* C9: get_sheet_for_clinic(day, clinic) returns none when no stored sheet
\* has a record with Day = day and Clinic = clinic, and otherwise a sheet
\* having such a record whose created_at is the latest among the sheets
\* having one.
C9_FindsLatestMatch ==
    \A day \in ReqDays, clinic \in ReqClinics :
        LET found  == get_sheet_for_clinic(sheets, day, clinic)
            having == {i \in DOMAIN sheets : ElemMatch(sheets[i], day, clinic)}
        IN  IF having = {} THEN found = 0
            ELSE /\ found \in having
                 /\ \A j \in having :
                        sheets[j].created_at <= sheets[found].created_at

\* C10: save_attendance applied to a matched sheet with a batch in which
\* every row carries a row_id, and then applied again with the same batch,
\* leaves every sheet with the records the first application left.
C10_SaveIdempotent ==
    (/\ Saved
     /\ PreTarget # 0
     /\ \A i \in DOMAIN last.form.row_id : last.form.row_id[i] # "")
    => LET again == save_attendance(DB, today, last.day, last.clinic,
                                    last.form).db.sheets
       IN  /\ Len(again) = Len(sheets)
           /\ \A i \in DOMAIN sheets : again[i].rows = sheets[i].rows

\* C15: at most one stored sheet holds a record with a given non-empty
\* (Day, Clinic) pair.
C15_OneSheetPerKey ==
    \A i, j \in DOMAIN sheets :
        \A a \in DOMAIN sheets[i].rows, b \in DOMAIN sheets[j].rows :
            (/\ Truthy(sheets[i].rows[a], "Day")
             /\ Truthy(sheets[i].rows[a], "Clinic")
             /\ Has(sheets[j].rows[b], "Day", sheets[i].rows[a]["Day"])
             /\ Has(sheets[j].rows[b], "Clinic", sheets[i].rows[a]["Clinic"]))
            => i = j

\* C17: no stored sheet holds two records with the same row_id.
C17_NoDuplicateRowIds ==
    \A i \in DOMAIN sheets :
        \A a, b \in DOMAIN sheets[i].rows :
            sheets[i].rows[a]["row_id"] = sheets[i].rows[b]["row_id"] => a = b

\* the stored records in export order, as (sheet, row) index pairs
RECURSIVE StoredRecords(_, _)
StoredRecords(docs, i) ==
    IF i > Len(docs) THEN <<>>
    ELSE [j \in DOMAIN docs[i].rows |-> <<i, j>>] \o StoredRecords(docs, i + 1)

\* C14: export_all writes exactly one line per stored record across all
\* sheets, in storage order, each with the filename of the sheet it came
\* from; every line has every column that any exported record has, with the
\* record's text where the record carries the column with a value and the
\* empty string where it does not carry the column; the store is unchanged.
C14_ExportComplete ==
    last.op = "export_all"
    => LET recs == StoredRecords(pre.sheets, 1)
           out  == last.body
       IN  /\ sheets = pre.sheets
           /\ Len(out.lines) = Len(recs)
           /\ \A k \in DOMAIN recs :
                LET doc  == pre.sheets[recs[k][1]]
                    r    == doc.rows[recs[k][2]]
                    line == out.lines[k]
                IN  /\ DOMAIN line = out.header
                    /\ DOMAIN r \cup {"filename"} \subseteq out.header
                    /\ line["filename"] = FilenameText(doc.filename)
                    /\ \A col \in out.header \ {"filename"} :
                          IF col \notin DOMAIN r THEN line[col] = ""
                          ELSE r[col] # NaN => line[col] = r[col]

\* an export of two sheets in which a record lacks a column another has
C14_Witness ==
    /\ last.op = "export_all"
    /\ Len(pre.sheets) >= 2
    /\ \E k \in DOMAIN last.body.lines :
          LET at == StoredRecords(pre.sheets, 1)[k]
          IN  /\ "Time" \in last.body.header
              /\ "Time" \notin DOMAIN pre.sheets[at[1]].rows[at[2]]
              /\ last.body.lines[k]["Time"] = ""

\* ------------------------------------------------------------------------
\* The session parser on its own: one cell of a clinic column is parsed
\* ------------------------------------------------------------------------

MaxCell == 5      \* symbols in a cell made of arbitrary symbols

CellSymbols == {" ", ",", "-", "Monday", "1:00"}

RECURSIVE Texts(_)
Texts(n) ==
    IF n = 0 THEN {<<>>}
    ELSE Texts(n - 1)
         \cup {Append(t, ch) : t \in {u \in Texts(n - 1) : Len(u) = n - 1},
                               ch \in CellSymbols}

\* tokens as registrants write them, well-formed and not
CellTokens ==
    {Token("Monday", "1:00", "2:00"),
     Token("Tuesday", "1:00", "2:00"),
     Token("Saturday", "1:00", "2:00"),
     <<"Monday", "-", "1:00">>,
     <<"Monday", " ", "-", " ", "-", " ", "2:00">>,
     <<"Monday", "-", "1:00", "-", "2:00", "-", "2:00">>}

Cells ==
    Texts(MaxCell)
    \cup CellTokens
    \cup {a \o <<",", " ">> \o b : a, b \in CellTokens}
    \cup {a \o <<",">> \o b \o <<",", " ">> \o c : a, b, c \in CellTokens}

InitParse ==
    /\ sheets = <<>>
    /\ nextId = 0
    /\ now = 0
    /\ today = 0
    /\ nreq = 0
    /\ pre = [sheets |-> <<>>, nextId |-> 0, now |-> 0, today |-> 0]
    /\ last = Request("")
    /\ arg \in Cells
    /\ ret = NotReturned
    /\ call = <<>>
    /\ wrote = <<>>

\* lines 115-121 of build_attendance run on the cell
Parse ==
    /\ ~ret.done
    /\ ret' = Returned(ParseSessions(arg))
    /\ UNCHANGED <<sheets, nextId, now, today, nreq, pre, last, arg, call, wrote>>

NextParse == Parse

SpecParse == InitParse /\ [][NextParse]_vars

\* the descriptors the parser is to give: per comma-separated token that,
\* trimmed, splits on "-" into exactly 3 parts all non-empty when trimmed,
\* its three trimmed parts; nothing for any other token
RECURSIVE Descriptors(_)
Descriptors(tokens) ==
    IF tokens = <<>> THEN <<>>
    ELSE LET p == Split(Strip(Head(tokens)), "-")
             t == [j \in DOMAIN p |-> Strip(p[j])]
         IN  (IF Len(t) = 3 /\ \A j \in DOMAIN t : t[j] # <<>>
              THEN <<t>> ELSE <<>>)
             \o Descriptors(Tail(tokens))

\* C11: the parser yields, in input order, exactly one descriptor
\* (day, start, end) for each comma-separated token that after trimming
\* splits on "-" into exactly 3 parts, all non-empty after trimming, and
\* nothing for any other token; an empty cell yields the empty sequence.
C11_ParserAcceptsThreeNonEmpty ==
    ret.done => ret.value = Descriptors(Split(arg, ","))

\* ------------------------------------------------------------------------
\* The expansion on its own: a sign-up table is converted and expanded
\* ------------------------------------------------------------------------

MaxRows == 2      \* registrants in a sign-up table

RedColumn == "Red Ball Clinic - Day & Time"
GreenColumn == "Green Ball Clinic - Day & Time"

BuildColumns ==
    <<"Player Name", "Player Age", "Parent/Guardian Name", RedColumn, GreenColumn>>

\* the cells of the Red Ball column, and of the Green Ball column
RedCells ==
    {<<>>,
     Token("Monday", "1:00", "2:00"),
     Token("Tuesday", "1:00", "2:00"),
     Token("Saturday", "1:00", "2:00"),
     Token("Tuesday", "2:00", "2:00") \o <<",", " ">> \o Token("Monday", "1:00", "2:00"),
     <<"Monday", "-", "1:00">>,
     <<"Monday", " ", "-", " ", "-", " ", "2:00">>}

GreenCells ==
    {<<>>, Token("Monday", "1:00", "2:00"), Token("Saturday", "1:00", "2:00")}

Registrant(name, guardian, red, green) ==
    [k \in Range(BuildColumns) |->
        CASE k = "Player Name"          -> <<name>>
          [] k = "Player Age"           -> <<"7">>
          [] k = "Parent/Guardian Name" -> guardian
          [] k = RedColumn              -> red
          [] k = GreenColumn            -> green]

Registrants ==
    {Registrant(name, guardian, red, green) :
        name \in {"Ann", "Bob"}, guardian \in {<<>>, <<"Bob">>},
        red \in RedCells, green \in GreenCells}

\* a registrant of a sheet that has no Green Ball column
NoGreen(row) == [k \in DOMAIN row \ {GreenColumn} |-> row[k]]

RECURSIVE RowSeqs(_)
RowSeqs(n) ==
    IF n = 0 THEN {<<>>}
    ELSE RowSeqs(n - 1)
         \cup {Append(rs, r) : rs \in {x \in RowSeqs(n - 1) : Len(x) = n - 1},
                               r \in Registrants}

BuildTables ==
    {[columns |-> BuildColumns, rows |-> rs] : rs \in RowSeqs(MaxRows)}
    \cup {[columns |-> SubSeq(BuildColumns, 1, 4),
           rows    |-> [i \in DOMAIN rs |-> NoGreen(rs[i])]] :
             rs \in {x \in RowSeqs(MaxRows) :
                        \A i \in DOMAIN x : x[i][GreenColumn] = <<>>}}

InitBuild ==
    /\ sheets = <<>>
    /\ nextId = 0
    /\ now = 0
    /\ today = 0
    /\ nreq = 0
    /\ pre = [sheets |-> <<>>, nextId |-> 0, now |-> 0, today |-> 0]
    /\ last = Request("")
    /\ arg \in BuildTables
    /\ ret = NotReturned
    /\ call = <<>>
    /\ wrote = <<>>

\* df_clean = convert_import_to_internal_schema(df_raw);
\* attendance_df = build_attendance(df_clean)
Build ==
    /\ ~ret.done
    /\ ret' = Returned(build_attendance(
                           convert_import_to_internal_schema(arg, 0),
                           ConvertDraws(arg)))
    /\ UNCHANGED <<sheets, nextId, now, today, nreq, pre, last, arg, call, wrote>>

NextBuild == Build

SpecBuild == InitBuild /\ [][NextBuild]_vars

\* the records the expansion is to emit for a sign-up table: per configured
\* category whose column the table has, per registrant, per token of the
\* cell the parser accepts, the category label, the token's day and
\* "start - end", the registrant's name, age and guardian name, and empty
\* Comments and Fee
ClaimedRecords(df_raw) ==
    Flatten([c \in DOMAIN CLINIC_COLUMNS |->
        IF CLINIC_COLUMNS[c].column \notin Range(df_raw.columns) THEN <<>>
        ELSE Flatten([i \in DOMAIN df_raw.rows |->
            LET row == df_raw.rows[i]
                ds  == ParseSessions(row[CLINIC_COLUMNS[c].column])
            IN  [k \in DOMAIN ds |->
                    [Day        |-> Str(ds[k][1]),
                     Clinic     |-> CLINIC_COLUMNS[c].clinic,
                     Time       |-> Str(ds[k][2]) \o " - " \o Str(ds[k][3]),
                     Name       |-> Str(row["Player Name"]),
                     Age        |-> Str(row["Player Age"]),
                     MemberName |-> Str(row["Parent/Guardian Name"]),
                     Comments   |-> "",
                     Fee        |-> ""]]])])

\* a returned record without its row_id, Email and Phone
Claimed(r) ==
    [k \in {"Day", "Clinic", "Time", "Name", "Age", "MemberName", "Comments", "Fee"}
        |-> r[k]]

Count(s, x) == Cardinality({i \in DOMAIN s : s[i] = x})

\* C12: build_attendance returns exactly one record per (registrant,
\* configured category whose column is present, token of the cell that the
\* parser accepts)
\* and no other record, each with the category label as Clinic, the token's
\* day as Day, "start - end" as Time, the registrant's Name, Age and guardian
\* name, empty Comments and Fee, and a row_id no other returned record has.
C12_ExpandOnePerToken ==
    ret.done
    => LET out  == [i \in DOMAIN ret.value |-> Claimed(ret.value[i])]
           want == ClaimedRecords(arg)
       IN  /\ Len(out) = Len(want)
           /\ \A i \in DOMAIN want : Count(out, want[i]) = Count(want, want[i])
           /\ \A i, j \in DOMAIN ret.value :
                 ret.value[i]["row_id"] = ret.value[j]["row_id"] => i = j

\* the day's place in the canonical order: its index in DAY_ORDER, and one
\* past the last index for a day that is not in it
DayPlace(day) ==
    IF \E i \in DOMAIN DAY_ORDER : DAY_ORDER[i] = day
    THEN CHOOSE i \in DOMAIN DAY_ORDER : DAY_ORDER[i] = day
    ELSE Len(DAY_ORDER) + 1

ClinicPlace(clinic) == CHOOSE i \in DOMAIN CLINIC_ORDER : CLINIC_ORDER[i] = clinic

\* (day place, clinic place, Time, Name) of a is at most that of b
CanonLeq(a, b) ==
    LET da == DayPlace(Str(a.Day))
        db == DayPlace(Str(b.Day))
        ca == ClinicPlace(a.Clinic)
        cb == ClinicPlace(b.Clinic)
    IN  \/ da < db
        \/ da = db /\ ca < cb
        \/ da = db /\ ca = cb /\ TextLess(a.Time, b.Time)
        \/ da = db /\ ca = cb /\ a.Time = b.Time /\ ~TextLess(b.Name, a.Name)

\* the emitted record a returned record was made from
Emitted(r) ==
    LET em == EmittedRecords(convert_import_to_internal_schema(arg, 0),
                             ConvertDraws(arg))
    IN  em[CHOOSE i \in DOMAIN em : em[i]["row_id"] = r["row_id"]]

\* the returned table is in canonical order
Canonical ==
    \A i \in 1..(Len(ret.value) - 1) :
        CanonLeq(Emitted(ret.value[i]), Emitted(ret.value[i + 1]))

\* C13: the table build_attendance returns is in canonical order whatever
\* the order of the input rows: the key (place of Day in Monday..Friday,
\* place of Clinic in the category list, Time, Name) of adjacent records is
\* non-decreasing, a day outside the list taking a place after every listed
\* day, and a record with such a day still carries its day value.
C13_CanonicalOrder ==
    ret.done
    => /\ Canonical
       /\ \A i \in DOMAIN ret.value :
             ret.value[i]["Day"] = Str(Emitted(ret.value[i]).Day)

\* ------------------------------------------------------------------------
\* app.py: two save_attendance requests served at the same time
\* Each request runs in its own thread of the server; what one request does
\* to the collection is its sequence of calls on it, in program order, and
\* the calls of the two requests interleave. call[c] is the frame of
\* request c: its position, its loop index and its local variables.
\* wrote[d][j] lists, oldest first, the <<request, form row>> of the "$set"
\* calls that changed record j of sheet d.
\* ------------------------------------------------------------------------

Callers == {1, 2}

\* the same form with other values typed into its rows
Retyped(form) ==
    [form EXCEPT
        !.player_name = [i \in DOMAIN @ |-> Typed[3 - i].name],
        !.age         = [i \in DOMAIN @ |-> Typed[3 - i].age],
        !.parent      = [i \in DOMAIN @ |-> Typed[3 - i].parent],
        !.comments    = [i \in DOMAIN @ |-> Typed[3 - i].comments],
        !.fee         = [i \in DOMAIN @ |-> Typed[3 - i].fee]]

\* a request that has read its form and called nothing yet
Frame(day, clinic, form) ==
    [pc |-> "find_all", i |-> 1, day |-> day, clinic |-> clinic, form |-> form,
     all_sheets |-> <<>>, filename |-> NoFilename, existing_dyn |-> {},
     contains |-> FALSE]

NoHistory(rows) == [j \in DOMAIN rows |-> <<>>]

\* the import served first (t, then a date column on its Monday sheet or
\* not) and the day both requests name: a Monday sheet of two records with
\* a date column; a Tuesday sheet that lacks the Monday sheet's date column;
\* no Tuesday sheet
Scenes ==
    { [t |-> 2, with_col |-> TRUE,  day |-> "Monday"],
      [t |-> 1, with_col |-> TRUE,  day |-> "Tuesday"],
      [t |-> 2, with_col |-> FALSE, day |-> "Tuesday"] }

\* the forms of at least one row; a lone row flagged for deletion sends no
\* date keys (they are not read for it)
ConcForms(docs) ==
    {f \in Forms(docs) :
        /\ f.row_id # <<>>
        /\ f.delete_flag = <<"1">> => DOMAIN f.dates = {}}

\* nothing is stored and no request is being served
InitConc ==
    /\ sheets = <<>>
    /\ nextId = 0
    /\ now = 0
    /\ today = 0
    /\ nreq = 0
    /\ pre = [sheets |-> <<>>, nextId |-> 0, now |-> 0, today |-> 0]
    /\ last = Request("")
    /\ arg = <<>>
    /\ ret = NotReturned
    /\ call = <<>>
    /\ wrote = <<>>

\* the store holds what a handler returned and no record has a history
Stored(res) ==
    /\ sheets' = res.db.sheets
    /\ nextId' = res.db.nextId
    /\ now' = res.db.now
    /\ wrote' = [d \in DOMAIN res.db.sheets |-> NoHistory(res.db.sheets[d].rows)]

\* the import is served before the two requests; arg keeps the scene
Seed ==
    /\ sheets = <<>>
    /\ \E scene \in Scenes :
           /\ Stored(index(DB, today, "url", ImportTables[scene.t]))
           /\ arg' = scene
    /\ UNCHANGED <<today, nreq, pre, last, ret, call>>

\* the scene has a date column: it is added to the Monday sheet
SeedColumn ==
    /\ sheets # <<>>
    /\ call = <<>>
    /\ arg.with_col
    /\ "c1" \notin AllDynamicCols(sheets)
    /\ Stored(add_date_column(DB, "Monday", "Red Ball Clinic", "c1"))
    /\ UNCHANGED <<today, nreq, pre, last, arg, ret, call>>

\* the two requests arrive, each with the form of its client, for one group
Arrive ==
    /\ sheets # <<>>
    /\ call = <<>>
    /\ arg.with_col => "c1" \in AllDynamicCols(sheets)
    /\ \E f1 \in ConcForms(sheets), f2 \in ConcForms(sheets) :
           call' = << Frame(arg.day, "Red Ball Clinic", f1),
                      Frame(arg.day, "Red Ball Clinic", Retyped(f2)) >>
    /\ UNCHANGED <<sheets, nextId, now, today, nreq, pre, last, arg, ret, wrote>>

\* request c has arrived and is at position pc
Serving(c, pc) == call # <<>> /\ call[c].pc = pc

\* n = len(names)
FormRows(c) == Len(call[c].form.player_name)

\* where the request goes on after row i of "for i in range(n)"
AfterRow(c, i) ==
    [call[c] EXCEPT !.i = i + 1,
                    !.pc = IF i + 1 > FormRows(c) THEN "done" ELSE "row"]

\* the sheet an update_one({"filename": filename}, ...) of request c changes
Hit(c) == FirstMatch(Named(sheets, call[c].filename))

\* all_sheets = list(sheets_collection.find())
FindAll(c) ==
    /\ Serving(c, "find_all")
    /\ call' = [call EXCEPT ![c].all_sheets = sheets, ![c].pc = "find_target"]
    /\ UNCHANGED <<sheets, nextId, now, today, nreq, pre, last, arg, ret, wrote>>

\* target = get_sheet_for_clinic(day, clinic)
FindTarget(c) ==
    /\ Serving(c, "find_target")
    /\ LET target == get_sheet_for_clinic(sheets, call[c].day, call[c].clinic)
       IN  call' =
             [call EXCEPT ![c] =
                 IF target = 0
                 THEN [@ EXCEPT !.pc = "create"]
                 ELSE LET existing_dyn == sheets[target].dynamic_columns
                          merged_dyn   == existing_dyn
                                          \cup AllDynamicCols(call[c].all_sheets)
                      IN  [@ EXCEPT
                              !.filename = sheets[target].filename,
                              !.existing_dyn = existing_dyn,
                              !.pc = IF merged_dyn # existing_dyn
                                     THEN "set_dynamic"
                                     ELSE IF FormRows(c) >= 1 THEN "row"
                                     ELSE "done"]]
    /\ UNCHANGED <<sheets, nextId, now, today, nreq, pre, last, arg, ret, wrote>>

\* update_one({"filename": filename}, {"$set": {"dynamic_columns": merged_dyn}})
SetDynamicColumns(c) ==
    /\ Serving(c, "set_dynamic")
    /\ LET merged_dyn == call[c].existing_dyn
                         \cup AllDynamicCols(call[c].all_sheets)
       IN  sheets' = UpdateOne(sheets, Named(sheets, call[c].filename),
                         [d \in DOMAIN sheets |->
                             [sheets[d] EXCEPT !.dynamic_columns = merged_dyn]])
    /\ call' = [call EXCEPT ![c].pc = IF FormRows(c) >= 1 THEN "row" ELSE "done"]
    /\ UNCHANGED <<nextId, now, today, nreq, pre, last, arg, ret, wrote>>

\* row i carries a row id and the delete flag: "$pull" of that row id
PullFlagged(c) ==
    LET i   == call[c].i
        rid == At(call[c].form.row_id, i)
    IN  /\ Serving(c, "row")
        /\ rid # "" /\ At(call[c].form.delete_flag, i) = "1"
        /\ sheets' = UpdateOne(sheets, Named(sheets, call[c].filename),
                         [d \in DOMAIN sheets |-> PullRow(sheets[d], rid)])
        /\ wrote' = IF Hit(c) = 0 THEN wrote
                    ELSE LET rows == sheets[Hit(c)].rows
                             kept == SelectSeq([j \in DOMAIN rows |-> j],
                                         LAMBDA j : ~Has(rows[j], "row_id", rid))
                         IN  [wrote EXCEPT ![Hit(c)] =
                                 [k \in DOMAIN kept |-> @[kept[k]]]]
        /\ call' = [call EXCEPT ![c] = AfterRow(c, i)]
        /\ UNCHANGED <<nextId, now, today, nreq, pre, last, arg, ret>>

\* row i carries a row id and no delete flag: count_documents(...) > 0
CountRow(c) ==
    LET i   == call[c].i
        rid == At(call[c].form.row_id, i)
    IN  /\ Serving(c, "row")
        /\ rid # "" /\ At(call[c].form.delete_flag, i) # "1"
        /\ call' = [call EXCEPT
                       ![c].contains = Contains(sheets, call[c].filename, rid),
                       ![c].pc = "write"]
        /\ UNCHANGED <<sheets, nextId, now, today, nreq, pre, last, arg, ret, wrote>>

\* the row id was counted in the sheet: "$set" on the elements that carry it
SetFields(c) ==
    LET i   == call[c].i
        rid == At(call[c].form.row_id, i)
        dynamic_values == DynamicValues(call[c].all_sheets, call[c].form)
    IN  /\ Serving(c, "write")
        /\ call[c].contains
        /\ sheets' = UpdateOne(sheets, Named(sheets, call[c].filename),
                         [d \in DOMAIN sheets |->
                             SetElemFields(sheets[d], rid,
                                 update_fields(call[c].form, dynamic_values, i))])
        /\ wrote' = IF Hit(c) = 0 THEN wrote
                    ELSE LET rows == sheets[Hit(c)].rows
                         IN  [wrote EXCEPT ![Hit(c)] =
                                 [j \in DOMAIN rows |->
                                     IF Has(rows[j], "row_id", rid)
                                     THEN Append(@[j], <<c, i>>)
                                     ELSE @[j]]]
        /\ call' = [call EXCEPT ![c] = AfterRow(c, i)]
        /\ UNCHANGED <<nextId, now, today, nreq, pre, last, arg, ret>>

\* the row id was not counted in the sheet: "$push" of a record that carries it
PushUnknown(c) ==
    LET i   == call[c].i
        rid == At(call[c].form.row_id, i)
        dynamic_values == DynamicValues(call[c].all_sheets, call[c].form)
    IN  /\ Serving(c, "write")
        /\ ~call[c].contains
        /\ sheets' = UpdateOne(sheets, Named(sheets, call[c].filename),
                         [d \in DOMAIN sheets |->
                             PushRow(sheets[d],
                                 new_row(rid, call[c].day, call[c].clinic,
                                         call[c].form, dynamic_values, i))])
        /\ wrote' = IF Hit(c) = 0 THEN wrote
                    ELSE [wrote EXCEPT ![Hit(c)] = Append(@, <<>>)]
        /\ call' = [call EXCEPT ![c] = AfterRow(c, i)]
        /\ UNCHANGED <<nextId, now, today, nreq, pre, last, arg, ret>>

\* row i carries no row id: "$push" of a record with a fresh one
PushBlank(c) ==
    LET i == call[c].i
        dynamic_values == DynamicValues(call[c].all_sheets, call[c].form)
    IN  /\ Serving(c, "row")
        /\ At(call[c].form.row_id, i) = ""
        /\ sheets' = UpdateOne(sheets, Named(sheets, call[c].filename),
                         [d \in DOMAIN sheets |->
                             PushRow(sheets[d],
                                 new_row(Uuid(nextId + 1), call[c].day,
                                         call[c].clinic, call[c].form,
                                         dynamic_values, i))])
        /\ nextId' = nextId + 1
        /\ wrote' = IF Hit(c) = 0 THEN wrote
                    ELSE [wrote EXCEPT ![Hit(c)] = Append(@, <<>>)]
        /\ call' = [call EXCEPT ![c] = AfterRow(c, i)]
        /\ UNCHANGED <<now, today, nreq, pre, last, arg, ret>>

\* no sheet matched: the rows are built and save_sheet_to_db stores them
CreateSheet(c) ==
    LET dynamic_values == DynamicValues(call[c].all_sheets, call[c].form)
        filename == Filename(call[c].day, call[c].clinic, today)
        st  == NewSheetRows([rows |-> <<>>, nextId |-> nextId],
                            call[c].day, call[c].clinic, call[c].form,
                            dynamic_values, 1, FormRows(c))
        old == FirstMatch(Named(sheets, filename))
    IN  /\ Serving(c, "create")
        /\ sheets' = save_sheet_to_db(sheets, filename, st.rows,
                                      AllDynamicCols(call[c].all_sheets), now + 1)
        /\ nextId' = st.nextId
        /\ now' = now + 1
        /\ wrote' = IF old = 0 THEN Append(wrote, NoHistory(st.rows))
                    ELSE [wrote EXCEPT ![old] = NoHistory(st.rows)]
        /\ call' = [call EXCEPT ![c].pc = "done"]
        /\ UNCHANGED <<today, nreq, pre, last, arg, ret>>

NextConc ==
    \/ Seed
    \/ SeedColumn
    \/ Arrive
    \/ \E c \in Callers :
           \/ FindAll(c)
           \/ FindTarget(c)
           \/ SetDynamicColumns(c)
           \/ PullFlagged(c)
           \/ CountRow(c)
           \/ SetFields(c)
           \/ PushUnknown(c)
           \/ PushBlank(c)
           \/ CreateSheet(c)

SpecConc == InitConc /\ [][NextConc]_vars

\* ------------------------------------------------------------------------
\* Two requests edit one group at the same time
\* ------------------------------------------------------------------------

\* what row i of request c's form carries: the five fields every field-set
\* writes and the ad-hoc columns its submission holds
Sent(c, i) ==
    LET form == call[c].form
    IN  Over([col \in AllDynamicCols(call[c].all_sheets) \cap DOMAIN form.dates |->
                 At(form.dates[col], i)],
             [Name       |-> At(form.player_name, i),
              Age        |-> At(form.age, i),
              MemberName |-> At(form.parent, i),
              Comments   |-> At(form.comments, i),
              Fee        |-> At(form.fee, i)])

\* a history in which both requests have a field-set
UpdatedByBoth(h) == \A c \in Callers : \E k \in DOMAIN h : h[k][1] = c

LastSet(h) == h[Len(h)]

AllDone == call # <<>> /\ \A c \in Callers : call[c].pc = "done"

====
